---- MODULE Spec2Model ----
(***************************************************************************)
(* State-machine model of the real-time quiz session engine of             *)
(* src/src/handlers/websocket.rs: the Connection Registry                  *)
(* (AppState.active_connections), the Session Store (AppState.games), the  *)
(* per-connection task (websocket_task) with its message handlers and its  *)
(* timer tick, and the rows of the durable store those handlers read and   *)
(* write.  The HTTP handlers of handlers/game.rs and handlers/player.rs    *)
(* that write the same rows are modelled as far as the engine reads what   *)
(* they write.                                                             *)
(*                                                                         *)
(* Granularity.  Under Spec, SpecMove, SpecScore, SpecCast and SpecLive a   *)
(* handler is one action, from                                             *)
(* the receipt of its message to its last send.  Under SpecRace the        *)
(* commands of the host and the timer are split at the awaits where the    *)
(* lock on the Session Store is not held and another task can run in       *)
(* between:                                                                *)
(* handle_start_game (up to its call of handle_next_question),             *)
(* handle_next_question (the durable reads, then the writes) and the timer *)
(* (the scan of check_game_timers, then show_question_result).             *)
(*                                                                         *)
(* Store calls return and succeed, except the INSERT of an answer row,     *)
(* whose failure branch handle_submit_answer tests for explicitly.  The    *)
(* games row starts in status lobby with current_question NULL, question   *)
(* positions start at 0, players.is_active defaults to true and            *)
(* players.score to 0.  A task that waits for the games lock held for ever *)
(* stays blocked; what it wrote before the wait stays written.             *)
(*                                                                         *)
(* Arithmetic.  response_time_ms is an i32 and the scoring subtracts it    *)
(* in i32: where the difference overflows, the task either panics (a build *)
(* with overflow checks) or goes on with the wrapped value (a build        *)
(* without).  The f64 product of the scoring is taken as the exact         *)
(* quotient, truncated toward 0.                                           *)
(*                                                                         *)
(* Liveness.  SpecLive adds weak fairness of the end of every connection   *)
(* task: a transport closes, fails or falls silent at some time, and a     *)
(* task in its select loop then leaves the loop.                           *)
(***************************************************************************)
EXTENDS Integers, Sequences, FiniteSets, TLC

(***************************************************************************)
(* Bounds of the model.                                                    *)
(***************************************************************************)
NumQuestions == 2       \* questions in the question set, positions 0..N-1
MaxPlayers == 2         \* rows of the players table
MaxAnswerRows == 2      \* rows of the player_answers table
MaxClock == 1           \* the clock stops advancing after this many ticks
PlayLeaves == 1         \* calls of the HTTP leave_game under Spec, SpecCast, SpecLive
RaceLeaves == 2         \* calls of the HTTP leave_game under SpecRace
MoveLeaves == 2         \* calls of the HTTP leave_game under SpecMove
JoinRows == 3           \* rows of the players table under SpecJoin

(***************************************************************************)
(* Identifiers.                                                            *)
(***************************************************************************)
Conns == {"c1", "c2"}         \* session ids of the websocket connections
HttpSids == {"h1"}            \* session ids minted by the HTTP join_game
Sids == Conns \cup HttpSids
UnknownSid == "unknown"       \* host_session_id when no host row is found
GameCode == "G"               \* code of the one game of the games table
Codes == {GameCode, "X"}      \* game codes a client may send; "X" has no row
NULL == 0 - 99                \* SQL NULL / Option::None
NoTask == "none"              \* no task holds the lock
NoCode == "none"              \* game_code: None
HostUser == 1                 \* games.host_id, the one authenticated user
HostName == <<"h">>           \* users.username of the host
Nicks == {<<"a">>, <<"*", "*", "a">>}   \* nicknames a client may send
AnswerInputs == {"a", "b"}    \* answers a client may send
LatencyInputs == {5000}       \* response_time_ms a client may send

Positions == 0 .. (NumQuestions - 1)
QuestionIdAt(pos) == 7 + pos          \* questions.id of the row at a position
QuestionIds == {QuestionIdAt(pos) : pos \in Positions}
UnknownQuestion == 99                 \* a question id with no row
PlayedQuestions == {QuestionIdAt(0), UnknownQuestion}   \* ids sent under Spec
PositionOf(qid) == qid - 7
CorrectOption(qid) == "A"             \* questions.correct_option
TimeLimit(pos) == 1                   \* questions.time_limit, in clock ticks

VARIABLES
    pc,             \* per connection: where its websocket_task stands
    loc,            \* per connection: locals kept across an await
    connections,    \* AppState.active_connections: session id -> entry
    games,          \* AppState.games: game code -> GameState
    gamesLock,      \* the task that holds the games mutex forever, or NoTask
    dbGame,         \* the row of the games table
    dbPlayers,      \* the players table, a row's id is its index
    dbConns,        \* the active_connections table: session id -> row
    dbAnswers,      \* the player_answers table
    httpUsed,       \* session ids the HTTP join_game has minted
    leaves,         \* calls of the HTTP leave_game so far
    sent,           \* the messages sent by the last step
    last            \* the last step: operation, connection, argument, result

vars == <<pc, loc, connections, games, gamesLock, dbGame, dbPlayers, dbConns,
          dbAnswers, httpUsed, leaves, sent, last>>

EmptyMap == [x \in {} |-> NULL]
NoLoc == [next |-> NULL]
NoRow == [present |-> FALSE, user_id |-> NULL, player_id |-> NULL, game |-> FALSE]

Init ==
    /\ pc = [c \in Conns |-> "new"]
    /\ loc = [c \in Conns |-> NoLoc]
    /\ connections = EmptyMap
    /\ games = EmptyMap
    /\ gamesLock = NoTask
    /\ dbGame = [status |-> "lobby", current_question |-> NULL]
    /\ dbPlayers = <<>>
    /\ dbConns = [s \in Sids |-> NoRow]
    /\ dbAnswers = <<>>
    /\ httpUsed = {}
    /\ leaves = 0
    /\ sent = {}
    /\ last = [op |-> "init", c |-> UnknownSid, arg |-> NULL, res |-> "ok"]

(***************************************************************************)
(* Helpers on functions used as maps.                                      *)
(***************************************************************************)
MapPut(m, k, v) == [x \in (DOMAIN m) \cup {k} |-> IF x = k THEN v ELSE m[x]]
MapDel(m, k) == [x \in (DOMAIN m) \ {k} |-> m[x]]
UnwrapOr(x, d) == IF x = NULL THEN d ELSE x
Step(op, c, arg, res) == [op |-> op, c |-> c, arg |-> arg, res |-> res]

(***************************************************************************)
(* The durable store: queries of the handlers.                             *)
(***************************************************************************)
PlayerIds(rows) == 1 .. Len(rows)

\* SELECT ... FROM players WHERE session_id = $1
PlayersOfSession(rows, sid) == {i \in PlayerIds(rows) : rows[i].session_id = sid}

\* SELECT id FROM players WHERE game_id = $1 AND nickname = $2
PlayersOfNickname(rows, nick) == {i \in PlayerIds(rows) : rows[i].nickname = nick}

\* SELECT ... FROM questions WHERE question_set_id = $1 AND position = $2
QuestionAt(pos) == IF pos \in Positions THEN QuestionIdAt(pos) ELSE NULL

\* SELECT session_id FROM active_connections WHERE user_id = $1 AND game_id = $2
HostSessions(rows) ==
    {s \in Sids : rows[s].present /\ rows[s].user_id = HostUser /\ rows[s].game}

\* SELECT ... FROM player_answers WHERE player_id = $1 AND question_id = $2
AnswersOf(rows, pid, qid) ==
    {i \in 1 .. Len(rows) : rows[i].player_id = pid /\ rows[i].question_id = qid}

\* ORDER BY score DESC over a set of player ids
RECURSIVE SortByScoreDesc(_, _)
SortByScoreDesc(rows, ids) ==
    IF ids = {} THEN <<>>
    ELSE LET top == CHOOSE i \in ids :
                        \A j \in ids : rows[i].score > rows[j].score
                                       \/ (rows[i].score = rows[j].score /\ i <= j)
         IN  <<[player_id |-> top, score |-> rows[top].score]>>
             \o SortByScoreDesc(rows, ids \ {top})

\* The rows get_leaderboard reads: the active players of the game, by score.
LeaderboardRows(rows) ==
    SortByScoreDesc(rows, {i \in PlayerIds(rows) : rows[i].is_active})

(***************************************************************************)
(* Pure functions of the handlers.                                         *)
(***************************************************************************)
StartsWithStars(nick) == Len(nick) >= 2 /\ nick[1] = "*" /\ nick[2] = "*"

\* handle_join_lobby: guests get the "**" prefix unless they already carry it
DisplayName(user_id, nick) ==
    IF user_id = NULL
    THEN (IF ~StartsWithStars(nick) THEN <<"*", "*">> \o nick ELSE nick)
    ELSE nick

ToUpper(a) == IF a = "a" THEN "A" ELSE IF a = "b" THEN "B" ELSE a

Max(a, b) == IF a >= b THEN a ELSE b

\* the range of i32, the type of response_time_ms
MaxI32 == 2147483647
MinI32 == (0 - MaxI32) - 1

\* a - b leaves the range of i32: a panic in a build with overflow checks,
\* a wrapped difference in a build without them
SubOverflows(a, b) ==
    \/ b < 0 /\ a > MaxI32 + b
    \/ b > 0 /\ a < MinI32 + b

\* a - b modulo 2^32 in the range of i32, without leaving that range on the way
WrappingSub(a, b) ==
    IF b < 0 /\ a > MaxI32 + b THEN (a + MinI32) - (b - MinI32)
    ELSE IF b > 0 /\ a < MinI32 + b THEN (a - MinI32) - (b + MinI32)
    ELSE a - b

\* (max_points - min_points) as f64 * (num as f64 / max_time_ms as f64)
\* truncated toward 0 by "as i32", for num >= 0; the quotient is taken exactly
\* and in two parts so that no intermediate value leaves the range of i32
ScaledPart(span, num, max_time_ms) ==
    LET unit == max_time_ms \div 100
        per == span \div unit
    IN  per * (num \div 100) + (per * (num % 100)) \div 100

\* max_time_ms - response_time_ms, evaluated for a correct answer only,
\* overflows
PointsOverflow(is_correct, response_time_ms) ==
    is_correct /\ SubOverflows(10000, response_time_ms)

\* the points of handle_submit_answer
ComputePoints(is_correct, response_time_ms) ==
    IF is_correct
    THEN LET max_points == 1000
             min_points == 100
             max_time_ms == 10000
             num == Max(WrappingSub(max_time_ms, response_time_ms), 0)
         IN  min_points + ScaledPart(max_points - min_points, num, max_time_ms)
    ELSE 0

(***************************************************************************)
(* Outbound messages.                                                      *)
(***************************************************************************)
Msg(to, type, via, body) == [to |-> to, type |-> type, via |-> via, body |-> body]

Direct(c, type, body) == {Msg(c, type, "direct", body)}

ErrorTo(c) == Direct(c, "error", <<>>)

\* broadcast_to_game: every key of game.players found in the registry, then
\* the host session id if found in the registry
Recipients(gs, cs, code) ==
    IF code \in DOMAIN gs
    THEN {s \in DOMAIN gs[code].players : s \in DOMAIN cs}
         \cup {s \in {gs[code].host_session_id} : s \in DOMAIN cs}
    ELSE {}

\* session_clone.text(..) returns Err: the task behind the registry entry
\* has died without its teardown, so that nothing reads what is sent to it
SendFails(c) == pc[c] = "panicked"

\* a faulty variant of broadcast_to_game: the loop left at the first failed
\* send, so that only the failing recipient was attempted
BroadcastStoppingAtFailure(gs, cs, code, type, body) ==
    LET to == Recipients(gs, cs, code)
        failing == {f \in to : SendFails(f)}
    IN  {Msg(s, type, "broadcast", body) : s \in IF failing # {} THEN failing ELSE to}

\* broadcast_to_game: one send per recipient; an Err of a send is logged and
\* the loop goes on
BroadcastToGame(gs, cs, code, type, body) ==
    {Msg(s, type, "broadcast", body) : s \in Recipients(gs, cs, code)}

RemoveKey(obj, key) == [k \in (DOMAIN obj) \ {key} |-> obj[k]]

\* the json object handle_next_question builds for the general broadcast
QuestionData(qid, next) ==
    [question_id |-> qid, time_limit |-> TimeLimit(next),
     question_number |-> next + 1, total_questions |-> NumQuestions]

\* the copy handle_next_question sends to the caller's own session
QuestionForHost(qid, next) ==
    [question_id |-> qid, correct_option |-> CorrectOption(qid),
     time_limit |-> TimeLimit(next), question_number |-> next + 1,
     total_questions |-> NumQuestions]

\* a faulty variant of the broadcast copy: the object sent to the host reused
QuestionWithAnswerKept(qid, next) == QuestionForHost(qid, next)

\* the copy handle_next_question broadcasts: question_data minus the answer key
QuestionWithoutAnswer(qid, next) == RemoveKey(QuestionData(qid, next), "correct_option")

(***************************************************************************)
(* Locking.  tokio's Mutex is not reentrant: a task that awaits the games  *)
(* lock while some task holds it forever never proceeds.                   *)
(***************************************************************************)
GamesLockFree == gamesLock = NoTask
Idle(c) == pc[c] = "idle"
Block(c) == [pc EXCEPT ![c] = "blocked"]

(***************************************************************************)
(* ws_handler and the start of websocket_task.                             *)
(***************************************************************************)
Connect(c) ==
    /\ pc[c] = "new"
    /\ dbConns' = [dbConns EXCEPT ![c] = [present |-> TRUE, user_id |-> NULL,
                                          player_id |-> NULL, game |-> FALSE]]
    /\ connections' = MapPut(connections, c,
                             [user_id |-> NULL, player_id |-> NULL, game_code |-> NoCode])
    /\ pc' = [pc EXCEPT ![c] = "idle"]
    /\ sent' = Direct(c, "welcome", [session_id |-> c])
    /\ last' = Step("connect", c, NULL, "ok")
    /\ UNCHANGED <<loc, games, gamesLock, dbGame, dbPlayers, dbAnswers, httpUsed, leaves>>

(***************************************************************************)
(* handle_join_lobby.                                                      *)
(***************************************************************************)
\* the GameState handle_join_lobby inserts when the code has none
NewGame(host_session) ==
    [host_session_id |-> host_session, players |-> EmptyMap,
     current_question |-> 0 - 1, state |-> "lobby",
     question_timer |-> NULL, question_duration |-> NULL]

\* the PlayerState handle_join_lobby inserts under the caller's session id
NewPlayer(pid, user_id, sid, display) ==
    [player_id |-> pid, user_id |-> user_id, session_id |-> sid,
     nickname |-> display, score |-> 0, answers |-> EmptyMap, is_active |-> TRUE]

\* fetch_optional of the host's connection row, "unknown" when there is none
HostChoice(rows) == IF HostSessions(rows) = {} THEN {UnknownSid} ELSE HostSessions(rows)

ActivePlayerIds(rows) == {i \in PlayerIds(rows) : rows[i].is_active}

Reply(c, op, arg, res, msgs) ==
    /\ sent' = msgs
    /\ last' = Step(op, c, arg, res)

\* a handler that replies with an error and changes nothing
Refuse(c, op, arg) ==
    /\ Reply(c, op, arg, "error", ErrorTo(c))
    /\ UNCHANGED <<pc, loc, connections, games, gamesLock, dbGame, dbPlayers,
                   dbConns, dbAnswers, httpUsed, leaves>>

\* a faulty variant of the status test: only a finished game is closed
JoinOpenUnlessCompleted(status) == status # "completed"

\* handle_join_lobby: the game takes new players while its status is lobby
JoinOpen(status) == status = "lobby"

JoinLobby(c, code, nick) ==
    /\ Idle(c)
    /\ IF code # GameCode \/ ~JoinOpen(dbGame.status)
       THEN Refuse(c, "join_lobby", NULL)
       ELSE LET user_id == IF dbConns[c].present THEN dbConns[c].user_id ELSE NULL
                display == DisplayName(user_id, nick)
                pid == Len(dbPlayers) + 1
                rows == Append(dbPlayers,
                               [user_id |-> user_id, nickname |-> display,
                                session_id |-> c, is_active |-> TRUE, score |-> 0])
                acs == IF dbConns[c].present
                       THEN [dbConns EXCEPT ![c] = [present |-> TRUE, user_id |-> user_id,
                                                    player_id |-> pid, game |-> TRUE]]
                       ELSE dbConns
                cs == IF c \in DOMAIN connections
                      THEN [connections EXCEPT ![c] = [user_id |-> user_id,
                                                       player_id |-> pid,
                                                       game_code |-> code]]
                      ELSE connections
            IN  IF PlayersOfNickname(dbPlayers, display) # {}
                THEN Refuse(c, "join_lobby", NULL)
                ELSE /\ Len(dbPlayers) < MaxPlayers
                     /\ dbPlayers' = rows
                     /\ dbConns' = acs
                     /\ connections' = cs
                     /\ UNCHANGED <<loc, gamesLock, dbGame, dbAnswers, httpUsed, leaves>>
                     /\ IF ~GamesLockFree
                        THEN /\ pc' = Block(c)
                             /\ games' = games
                             /\ Reply(c, "join_lobby", pid, "blocked", {})
                        ELSE \E host \in (IF code \in DOMAIN games THEN {UnknownSid}
                                          ELSE HostChoice(acs)) :
                               LET gs1 == IF code \in DOMAIN games THEN games
                                          ELSE MapPut(games, code, NewGame(host))
                                   gs2 == [gs1 EXCEPT ![code].players =
                                              MapPut(@, c, NewPlayer(pid, user_id, c, display))]
                               IN  /\ games' = gs2
                                   /\ pc' = pc
                                   /\ Reply(c, "join_lobby", pid, "ok",
                                        Direct(c, "join_success", [player_id |-> pid])
                                        \cup BroadcastToGame(gs2, cs, code, "lobby_update",
                                               [players |-> ActivePlayerIds(rows)]))

\* a faulty variant of the creation: a fresh session whether or not the code
\* has one
SessionReplaced(gs, code, host) == MapPut(gs, code, NewGame(host))

\* if !games.contains_key(game_code) { games.insert(.., GameState {..}) }
SessionFor(gs, code, host) ==
    IF code \in DOMAIN gs THEN gs ELSE MapPut(gs, code, NewGame(host))

\* handle_join_lobby split at its awaits outside the games lock: the reads
\* of the game row, of the caller's user id and of the nickname
JoinLobbyCheck(c, code, nick) ==
    /\ Idle(c)
    /\ LET user_id == IF dbConns[c].present THEN dbConns[c].user_id ELSE NULL
           display == DisplayName(user_id, nick)
       IN  IF \/ code # GameCode
              \/ ~JoinOpen(dbGame.status)
              \/ PlayersOfNickname(dbPlayers, display) # {}
           THEN Refuse(c, "join_lobby", NULL)
           ELSE /\ pc' = [pc EXCEPT ![c] = "jl_insert"]
                /\ loc' = [loc EXCEPT ![c] = [next |-> NULL, user_id |-> user_id,
                                              display |-> display, pid |-> NULL]]
                /\ Reply(c, "join_lobby", NULL, "checked", {})
                /\ UNCHANGED <<connections, games, gamesLock, dbGame, dbPlayers,
                               dbConns, dbAnswers, httpUsed, leaves>>

\* handle_join_lobby: the INSERT of the players row, the UPDATE of the
\* connection row and of the registry entry; the players table holds at most
\* `budget` rows
JoinLobbyInsert(c, budget) ==
    /\ pc[c] = "jl_insert"
    /\ Len(dbPlayers) < budget
    /\ LET pid == Len(dbPlayers) + 1
           l == loc[c]
       IN  /\ dbPlayers' = Append(dbPlayers,
                                  [user_id |-> l.user_id, nickname |-> l.display,
                                   session_id |-> c, is_active |-> TRUE, score |-> 0])
           /\ dbConns' = IF dbConns[c].present
                         THEN [dbConns EXCEPT ![c] = [present |-> TRUE,
                                                      user_id |-> l.user_id,
                                                      player_id |-> pid, game |-> TRUE]]
                         ELSE dbConns
           /\ connections' = IF c \in DOMAIN connections
                             THEN [connections EXCEPT ![c] = [user_id |-> l.user_id,
                                                              player_id |-> pid,
                                                              game_code |-> GameCode]]
                             ELSE connections
           /\ pc' = [pc EXCEPT ![c] = "jl_store"]
           /\ loc' = [loc EXCEPT ![c].pid = pid]
           /\ Reply(c, "join_lobby", pid, "inserted", {})
           /\ UNCHANGED <<games, gamesLock, dbGame, dbAnswers, httpUsed, leaves>>

\* handle_join_lobby: the critical section on the games lock, which creates
\* the session if the code has none and inserts the player, and the sends
JoinLobbyStore(c) ==
    /\ pc[c] = "jl_store"
    /\ UNCHANGED <<connections, gamesLock, dbGame, dbPlayers, dbConns, dbAnswers,
                   httpUsed, leaves>>
    /\ IF ~GamesLockFree
       THEN /\ pc' = Block(c)
            /\ UNCHANGED <<games, loc>>
            /\ Reply(c, "join_lobby", loc[c].pid, "blocked", {})
       ELSE \E host \in (IF GameCode \in DOMAIN games THEN {UnknownSid}
                         ELSE HostChoice(dbConns)) :
              LET l == loc[c]
                  gs1 == SessionFor(games, GameCode, host)
                  gs2 == [gs1 EXCEPT ![GameCode].players =
                             MapPut(@, c, NewPlayer(l.pid, l.user_id, c, l.display))]
              IN  /\ games' = gs2
                  /\ pc' = [pc EXCEPT ![c] = "idle"]
                  /\ loc' = [loc EXCEPT ![c] = NoLoc]
                  /\ Reply(c, "join_lobby", l.pid, "ok",
                           Direct(c, "join_success", [player_id |-> l.pid])
                           \cup BroadcastToGame(gs2, connections, GameCode,
                                                "lobby_update",
                                                [players |-> ActivePlayerIds(dbPlayers)]))

(***************************************************************************)
(* HTTP handlers that write the rows the engine reads.                     *)
(***************************************************************************)
\* game.rs join_game, called by the authenticated host: a player row and a
\* connection row under a fresh session id
HttpJoinGame(sid) ==
    /\ sid \notin httpUsed
    /\ dbGame.status = "lobby"
    /\ PlayersOfNickname(dbPlayers, HostName) = {}
    /\ Len(dbPlayers) < MaxPlayers
    /\ dbPlayers' = Append(dbPlayers,
                           [user_id |-> HostUser, nickname |-> HostName,
                            session_id |-> sid, is_active |-> TRUE, score |-> 0])
    /\ dbConns' = [dbConns EXCEPT ![sid] = [present |-> TRUE, user_id |-> HostUser,
                                            player_id |-> Len(dbPlayers) + 1,
                                            game |-> TRUE]]
    /\ httpUsed' = httpUsed \cup {sid}
    /\ leaves' = leaves
    /\ sent' = {}
    /\ last' = Step("http_join", sid, Len(dbPlayers) + 1, "ok")
    /\ UNCHANGED <<pc, loc, connections, games, gamesLock, dbGame, dbAnswers>>

\* player.rs leave_game, called by the authenticated host for its own player
\* row or for a guest's row, at most `budget` times in a behaviour
HttpLeaveGame(pid, budget) ==
    /\ pid \in PlayerIds(dbPlayers)
    /\ dbPlayers[pid].user_id \in {NULL, HostUser}
    /\ dbPlayers[pid].is_active
    /\ leaves < budget
    /\ leaves' = leaves + 1
    /\ dbPlayers' = [dbPlayers EXCEPT ![pid].is_active = FALSE]
    /\ dbConns' = [s \in Sids |-> IF dbConns[s].present /\ dbConns[s].player_id = pid
                                  THEN NoRow ELSE dbConns[s]]
    /\ sent' = {}
    /\ last' = Step("http_leave", UnknownSid, pid, "ok")
    /\ UNCHANGED <<pc, loc, connections, games, gamesLock, dbGame, dbAnswers, httpUsed>>

(***************************************************************************)
(* handle_start_game and handle_next_question.                             *)
(***************************************************************************)
\* the row of "games g JOIN active_connections ac ON ac.session_id = $1
\* WHERE g.code = $2": none for an unknown code or a missing connection row
GameRowFor(c, code) == code = GameCode /\ dbConns[c].present

\* a faulty variant of the host test: any connection with a row passes
HasConnectionRow(c) == dbConns[c].present

\* g.user_id != Some(g.host_id) is false
IsHostUser(c) == dbConns[c].user_id = HostUser

\* let next_question = g.current_question.unwrap_or(-1) + 1
NextIndex(row) == UnwrapOr(row.current_question, 0 - 1) + 1

\* the in-memory update of handle_start_game
MarkStarted(g) == [g EXCEPT !.state = "game"]

\* the in-memory update of the Ok(Some(q)) branch
LoadQuestion(g, next) ==
    [g EXCEPT !.current_question = next, !.state = "question",
              !.question_timer = 0, !.question_duration = TimeLimit(next)]

\* the in-memory update of the Ok(None) branch
EndGame(g) == [g EXCEPT !.state = "ended"]

UpdateGame(gs, code, g) == IF code \in DOMAIN gs THEN [gs EXCEPT ![code] = g] ELSE gs

\* what the Ok(Some(q)) branch sends: the broadcast copy, then the caller's
QuestionStartMessages(gs, cs, c, code, next) ==
    BroadcastToGame(gs, cs, code, "question_start",
                    QuestionWithoutAnswer(QuestionIdAt(next), next))
    \cup Direct(c, "question_start", QuestionForHost(QuestionIdAt(next), next))

\* what the Ok(None) branch sends, get_leaderboard having found the game
GameEndMessages(gs, cs, code, rows) ==
    BroadcastToGame(gs, cs, code, "game_end",
                    [final_leaderboard |-> LeaderboardRows(rows)])

\* handle_next_question from its first write on, for the index `next` it
\* read, on the store `gs` and the games row `row`, `before` already sent
NextQuestionWrites(c, code, next, gs, row, before) ==
    LET found == QuestionAt(next) # NULL
    IN  /\ dbGame' = IF found THEN [row EXCEPT !.current_question = next]
                     ELSE [row EXCEPT !.status = "completed"]
        /\ IF ~GamesLockFree
           THEN /\ pc' = Block(c)
                /\ games' = gs
                /\ Reply(c, "next_question", next, "blocked", before)
           ELSE /\ pc' = [pc EXCEPT ![c] = "idle"]
                /\ IF found
                   THEN LET gs2 == IF code \in DOMAIN gs
                                   THEN UpdateGame(gs, code, LoadQuestion(gs[code], next))
                                   ELSE gs
                        IN  /\ games' = gs2
                            /\ Reply(c, "next_question", next, "ok",
                                     before \cup QuestionStartMessages(gs2, connections,
                                                                       c, code, next))
                   ELSE LET gs2 == IF code \in DOMAIN gs
                                   THEN UpdateGame(gs, code, EndGame(gs[code]))
                                   ELSE gs
                        IN  /\ games' = gs2
                            /\ Reply(c, "next_question", next, "ended",
                                     before \cup GameEndMessages(gs2, connections, code,
                                                                 dbPlayers))

StartRefused(c, code) ==
    ~GameRowFor(c, code) \/ ~IsHostUser(c) \/ dbGame.status # "lobby"

NextRefused(c, code) == ~GameRowFor(c, code) \/ ~IsHostUser(c)

\* handle_start_game up to its call of handle_next_question
StartGameWrites(c, code) ==
    [row |-> [dbGame EXCEPT !.status = "active"],
     gs |-> IF code \in DOMAIN games
            THEN UpdateGame(games, code, MarkStarted(games[code]))
            ELSE games]

\* handle_start_game, the first question it loads included
StartGame(c, code) ==
    /\ Idle(c)
    /\ IF StartRefused(c, code)
       THEN Refuse(c, "start_game", NULL)
       ELSE LET w == StartGameWrites(c, code)
            IN  /\ UNCHANGED <<loc, connections, gamesLock, dbPlayers, dbConns,
                               dbAnswers, httpUsed, leaves>>
                /\ IF ~GamesLockFree
                   THEN /\ pc' = Block(c)
                        /\ dbGame' = w.row
                        /\ games' = games
                        /\ Reply(c, "start_game", NULL, "blocked", {})
                   ELSE NextQuestionWrites(c, code, NextIndex(w.row), w.gs, w.row,
                            BroadcastToGame(w.gs, connections, code, "game_started", <<>>))

\* handle_next_question
NextQuestion(c, code) ==
    /\ Idle(c)
    /\ IF NextRefused(c, code)
       THEN Refuse(c, "next_question", NULL)
       ELSE /\ UNCHANGED <<loc, connections, gamesLock, dbPlayers, dbConns,
                           dbAnswers, httpUsed, leaves>>
            /\ NextQuestionWrites(c, code, NextIndex(dbGame), games, dbGame, {})

(***************************************************************************)
(* The same two handlers, one step per stretch between two awaits at which *)
(* another task can run.                                                   *)
(***************************************************************************)
\* handle_start_game up to its call of handle_next_question
StartGameBegin(c, code) ==
    /\ Idle(c)
    /\ IF StartRefused(c, code)
       THEN Refuse(c, "start_game", NULL)
       ELSE LET w == StartGameWrites(c, code)
            IN  /\ dbGame' = w.row
                /\ UNCHANGED <<loc, connections, gamesLock, dbPlayers, dbConns,
                               dbAnswers, httpUsed, leaves>>
                /\ IF ~GamesLockFree
                   THEN /\ pc' = Block(c)
                        /\ games' = games
                        /\ Reply(c, "start_game", NULL, "blocked", {})
                   ELSE /\ games' = w.gs
                        /\ pc' = [pc EXCEPT ![c] = "next_question"]
                        /\ Reply(c, "start_game", NULL, "begun",
                                 BroadcastToGame(w.gs, connections, code,
                                                 "game_started", <<>>))

\* handle_next_question up to its reads of the durable store; entered by a
\* next_question message or by the call that ends handle_start_game
NextQuestionRead(c, code) ==
    /\ \/ Idle(c)
       \/ pc[c] = "next_question" /\ code = GameCode
    /\ UNCHANGED <<connections, games, gamesLock, dbGame, dbPlayers, dbConns,
                   dbAnswers, httpUsed, leaves>>
    /\ IF NextRefused(c, code)
       THEN /\ pc' = [pc EXCEPT ![c] = "idle"]
            /\ loc' = loc
            /\ Reply(c, "next_question", NULL, "error", ErrorTo(c))
       ELSE /\ pc' = [pc EXCEPT ![c] = "nq_write"]
            /\ loc' = [loc EXCEPT ![c] = [next |-> NextIndex(dbGame)]]
            /\ Reply(c, "next_question", NextIndex(dbGame), "read", {})

\* handle_next_question from its first write on
NextQuestionWrite(c) ==
    /\ pc[c] = "nq_write"
    /\ loc' = [loc EXCEPT ![c] = NoLoc]
    /\ UNCHANGED <<connections, gamesLock, dbPlayers, dbConns, dbAnswers, httpUsed, leaves>>
    /\ NextQuestionWrites(c, GameCode, loc[c].next, games, dbGame, {})

(***************************************************************************)
(* handle_submit_answer.                                                   *)
(***************************************************************************)
\* the rows of "players p JOIN games g JOIN active_connections ac
\* ON p.session_id = ac.session_id WHERE ac.session_id = $1"
SubmitterRows(c) == IF dbConns[c].present THEN PlayersOfSession(dbPlayers, c) ELSE {}

\* a faulty variant of the test of the INSERT's result: the handler goes on
\* whatever the result
AnswerResultIgnored(inserted) == TRUE

\* if let Ok(_) = answer_result
AnswerResultOk(inserted) == inserted

\* the in-memory update of handle_submit_answer
RecordAnswer(player, qid, answer, is_correct, response_time_ms, points) ==
    [player EXCEPT !.score = @ + points,
                   !.answers = MapPut(@, qid,
                        [answer |-> answer, is_correct |-> is_correct,
                         response_time_ms |-> response_time_ms,
                         points_earned |-> points])]

SubmitAnswer(c, qid, answer, rt) ==
    /\ Idle(c)
    /\ IF SubmitterRows(c) = {} \/ qid \notin QuestionIds
       THEN Refuse(c, "submit_answer", qid)
       ELSE \E p \in SubmitterRows(c), inserted \in BOOLEAN,
               panics \in IF PointsOverflow(ToUpper(answer) = CorrectOption(qid), rt)
                          THEN BOOLEAN ELSE {FALSE} :
              LET upper == ToUpper(answer)
                  is_correct == upper = CorrectOption(qid)
                  points == ComputePoints(is_correct, rt)
              IN  /\ UNCHANGED <<loc, connections, gamesLock, dbGame, dbConns, httpUsed, leaves>>
                  /\ IF panics
                     THEN /\ pc' = [pc EXCEPT ![c] = "panicked"]
                          /\ UNCHANGED <<games, dbPlayers, dbAnswers>>
                          /\ Reply(c, "submit_answer", qid, "panic", {})
                     ELSE /\ inserted => Len(dbAnswers) < MaxAnswerRows
                          /\ dbAnswers' =
                               IF inserted
                               THEN Append(dbAnswers,
                                      [player_id |-> p, question_id |-> qid,
                                       answer |-> upper, is_correct |-> is_correct,
                                       points_earned |-> points])
                               ELSE dbAnswers
                          /\ IF ~AnswerResultOk(inserted)
                              THEN /\ UNCHANGED <<pc, games, dbPlayers>>
                                   /\ Reply(c, "submit_answer", qid, "failed", {})
                              ELSE /\ dbPlayers' = [dbPlayers EXCEPT ![p].score = @ + points]
                                   /\ IF ~GamesLockFree
                                      THEN /\ pc' = Block(c)
                                           /\ games' = games
                                           /\ Reply(c, "submit_answer", qid, "blocked", {})
                                      ELSE /\ pc' = pc
                                           /\ games' =
                                                IF GameCode \in DOMAIN games
                                                   /\ c \in DOMAIN games[GameCode].players
                                                THEN [games EXCEPT ![GameCode].players[c] =
                                                        RecordAnswer(@, qid, upper, is_correct,
                                                                     rt, points)]
                                                ELSE games
                                           /\ Reply(c, "submit_answer", qid, "ok",
                                                Direct(c, "answer_received",
                                                       [question_id |-> qid, your_answer |-> upper,
                                                        is_correct |-> is_correct,
                                                        points_earned |-> points]))

(***************************************************************************)
(* handle_reconnect.                                                       *)
(***************************************************************************)
\* the PlayerState handle_reconnect inserts under the new session id: the
\* identity and the score of the durable row, the answers of the old entry
MigratedPlayer(old_state, pid, row, new_sid) ==
    [player_id |-> pid, user_id |-> row.user_id, session_id |-> new_sid,
     nickname |-> row.nickname, score |-> row.score,
     answers |-> old_state.answers, is_active |-> TRUE]

\* a faulty variant of the migration: the entry under the old session id is
\* copied to the new one and left in place
MigrateKeepingOld(players, old_sid, new_sid, pid, row) ==
    IF old_sid \in DOMAIN players
    THEN MapPut(players, new_sid, MigratedPlayer(players[old_sid], pid, row, new_sid))
    ELSE players

\* game.players.remove(old) and, if there was an entry, insert under new
MigratePlayers(players, old_sid, new_sid, pid, row) ==
    IF old_sid \in DOMAIN players
    THEN MapPut(MapDel(players, old_sid), new_sid,
                MigratedPlayer(players[old_sid], pid, row, new_sid))
    ELSE players

\* what handle_reconnect sends after reconnect_success when the game is active
ReconnectState(c, pid, gs) ==
    IF dbGame.status # "active" THEN {}
    ELSE LET cq == dbGame.current_question
             qid == IF cq = NULL THEN NULL ELSE QuestionAt(cq)
             rows == IF qid = NULL THEN {} ELSE AnswersOf(dbAnswers, pid, qid)
         IN  (IF qid = NULL THEN {}
              ELSE Direct(c, "current_question",
                          [question_id |-> qid, time_limit |-> TimeLimit(cq),
                           question_number |-> cq + 1]))
             \cup {Msg(c, "answer_received", "direct",
                       [question_id |-> qid, your_answer |-> dbAnswers[i].answer,
                        is_correct |-> dbAnswers[i].is_correct,
                        points_earned |-> dbAnswers[i].points_earned]) :
                   i \in {j \in rows : \A k \in rows : j <= k}}
             \cup (IF GameCode \in DOMAIN gs
                   THEN Direct(c, "leaderboard_update",
                               [leaderboard |-> LeaderboardRows(dbPlayers')])
                   ELSE {})

Reconnect(c, old) ==
    /\ Idle(c)
    /\ IF PlayersOfSession(dbPlayers, old) = {}
       THEN Refuse(c, "reconnect", NULL)
       ELSE \E p \in PlayersOfSession(dbPlayers, old) :
              IF dbPlayers[p].is_active
              THEN Refuse(c, "reconnect", p)
              ELSE LET row == dbPlayers[p]
                       cs1 == IF c \in DOMAIN connections
                              THEN [connections EXCEPT ![c] =
                                      [user_id |-> row.user_id, player_id |-> p,
                                       game_code |-> GameCode]]
                              ELSE connections
                   IN  /\ dbPlayers' = [dbPlayers EXCEPT ![p].is_active = TRUE,
                                                         ![p].session_id = c]
                       /\ dbConns' = IF dbConns[c].present
                                     THEN [dbConns EXCEPT ![c] =
                                             [present |-> TRUE, user_id |-> row.user_id,
                                              player_id |-> p, game |-> TRUE]]
                                     ELSE dbConns
                       /\ connections' = MapDel(cs1, old)
                       /\ UNCHANGED <<loc, gamesLock, dbGame, dbAnswers, httpUsed, leaves>>
                       /\ IF ~GamesLockFree
                          THEN /\ pc' = Block(c)
                               /\ games' = games
                               /\ Reply(c, "reconnect", p, "blocked", {})
                          ELSE LET gs == IF GameCode \in DOMAIN games
                                         THEN [games EXCEPT ![GameCode].players =
                                                 MigratePlayers(@, old, c, p, row)]
                                         ELSE games
                               IN  /\ games' = gs
                                   /\ pc' = pc
                                   /\ Reply(c, "reconnect", p, "ok",
                                        Direct(c, "reconnect_success",
                                               [player_id |-> p, score |-> row.score])
                                        \cup ReconnectState(c, p, gs))

(***************************************************************************)
(* The end of websocket_task: the connection closed, errored or timed out. *)
(***************************************************************************)
\* the game the teardown loop finds: one whose players hold the session id
GameOfSession(c) == {code \in DOMAIN games : c \in DOMAIN games[code].players}

Disconnect(c) ==
    /\ Idle(c)
    /\ connections' = MapDel(connections, c)
    /\ dbConns' = [dbConns EXCEPT ![c] = NoRow]
    /\ UNCHANGED <<loc, gamesLock, dbPlayers, dbAnswers, httpUsed, leaves>>
    /\ IF ~GamesLockFree
       THEN /\ pc' = Block(c)
            /\ UNCHANGED <<games, dbGame>>
            /\ Reply(c, "disconnect", NULL, "blocked", {})
       ELSE /\ pc' = [pc EXCEPT ![c] = "closed"]
            /\ IF GameOfSession(c) = {}
               THEN /\ UNCHANGED <<games, dbGame>>
                    /\ Reply(c, "disconnect", NULL, "ok", {})
               ELSE \E code \in GameOfSession(c) :
                      LET gs == [games EXCEPT ![code].players[c].is_active = FALSE]
                      IN  /\ games' = gs
                          /\ IF gs[code].host_session_id = c
                             THEN /\ dbGame' = [dbGame EXCEPT !.status = "completed"]
                                  /\ Reply(c, "disconnect", NULL, "host_left",
                                       BroadcastToGame(gs, connections', code, "game_end",
                                                       [reason |-> "host_left"]))
                             ELSE /\ dbGame' = dbGame
                                  /\ Reply(c, "disconnect", NULL, "ok", {})

(***************************************************************************)
(* The timer: every connection task runs check_game_timers on its tick.    *)
(***************************************************************************)
\* the test of check_game_timers on one game
Expired(g) ==
    /\ g.state = "question"
    /\ g.question_timer # NULL
    /\ g.question_duration # NULL
    /\ g.question_timer >= g.question_duration

\* the codes check_game_timers collects in games_to_advance
Due(gs) == {code \in DOMAIN gs : Expired(gs[code])}

\* the in-memory update of show_question_result
MarkReview(g) == [g EXCEPT !.state = "review"]

\* show_question_result: the phase is set to review, the question is read,
\* and get_leaderboard awaits the lock this task already holds, so that the
\* question_end broadcast behind it is never reached
ShowQuestionResultWrites(c) ==
    IF ~GamesLockFree
    THEN /\ pc' = Block(c)
         /\ UNCHANGED <<games, gamesLock>>
         /\ Reply(c, "show_question_result", NULL, "blocked", {})
    ELSE IF GameCode \notin DOMAIN games
         THEN /\ pc' = [pc EXCEPT ![c] = "idle"]
              /\ UNCHANGED <<games, gamesLock>>
              /\ Reply(c, "show_question_result", NULL, "ok", {})
         ELSE /\ games' = UpdateGame(games, GameCode, MarkReview(games[GameCode]))
              /\ IF QuestionAt(games[GameCode].current_question) # NULL
                 THEN /\ gamesLock' = c
                      /\ pc' = Block(c)
                      /\ Reply(c, "show_question_result", NULL, "deadlock", {})
                 ELSE /\ gamesLock' = gamesLock
                      /\ pc' = [pc EXCEPT ![c] = "idle"]
                      /\ Reply(c, "show_question_result", NULL, "error", {})

\* the tick of a connection task: check_game_timers and, for a due game,
\* show_question_result
Timer(c) ==
    /\ Idle(c)
    /\ UNCHANGED <<loc, connections, dbGame, dbPlayers, dbConns, dbAnswers, httpUsed, leaves>>
    /\ IF ~GamesLockFree
       THEN /\ pc' = Block(c)
            /\ UNCHANGED <<games, gamesLock>>
            /\ Reply(c, "tick", NULL, "blocked", {})
       ELSE /\ Due(games) # {}
            /\ ShowQuestionResultWrites(c)

\* check_game_timers: the scan under the lock, which fills games_to_advance
TimerScan(c) ==
    /\ Idle(c)
    /\ UNCHANGED <<loc, connections, games, gamesLock, dbGame, dbPlayers, dbConns,
                   dbAnswers, httpUsed, leaves>>
    /\ IF ~GamesLockFree
       THEN /\ pc' = Block(c)
            /\ Reply(c, "tick", NULL, "blocked", {})
       ELSE /\ Due(games) # {}
            /\ pc' = [pc EXCEPT ![c] = "advance"]
            /\ Reply(c, "tick", NULL, "due", {})

\* check_game_timers: the call of show_question_result, the lock released
\* since the scan
ShowQuestionResult(c) ==
    /\ pc[c] = "advance"
    /\ UNCHANGED <<loc, connections, dbGame, dbPlayers, dbConns, dbAnswers, httpUsed, leaves>>
    /\ ShowQuestionResultWrites(c)

\* one tick of the clock the Instants are read from
TimePasses ==
    /\ GameCode \in DOMAIN games
    /\ games[GameCode].question_timer # NULL
    /\ games[GameCode].question_timer < MaxClock
    /\ games' = [games EXCEPT ![GameCode].question_timer = @ + 1]
    /\ sent' = {}
    /\ last' = Step("time", UnknownSid, NULL, "ok")
    /\ UNCHANGED <<pc, loc, connections, gamesLock, dbGame, dbPlayers, dbConns,
                   dbAnswers, httpUsed, leaves>>

\* game.rs submit_answer_internal: the answer row and the durable score only
HttpSubmitAnswer(sid, qid, answer, rt) ==
    /\ dbGame.status = "active"
    /\ qid \in QuestionIds
    /\ PositionOf(qid) = UnwrapOr(dbGame.current_question, 0)
    /\ Len(dbAnswers) < MaxAnswerRows
    /\ \E p \in {i \in PlayersOfSession(dbPlayers, sid) : dbPlayers[i].is_active} :
         LET upper == ToUpper(answer)
             is_correct == upper = CorrectOption(qid)
             points == ComputePoints(is_correct, rt)
         IN  /\ AnswersOf(dbAnswers, p, qid) = {}
             /\ dbAnswers' = Append(dbAnswers,
                   [player_id |-> p, question_id |-> qid, answer |-> upper,
                    is_correct |-> is_correct, points_earned |-> points])
             /\ dbPlayers' = [dbPlayers EXCEPT ![p].score = @ + points]
    /\ sent' = {}
    /\ last' = Step("http_submit", sid, qid, "ok")
    /\ UNCHANGED <<pc, loc, connections, games, gamesLock, dbGame, dbConns, httpUsed, leaves>>

(***************************************************************************)
(* The specifications.                                                     *)
(***************************************************************************)
\* A game from the lobby to its end.  Every handler runs from its message
\* to its last send without another task running in between.
Next ==
    \/ \E c \in Conns : Connect(c)
    \/ \E c \in Conns, code \in Codes, nick \in Nicks : JoinLobby(c, code, nick)
    \/ \E c \in Conns, code \in Codes : StartGame(c, code)
    \/ \E c \in Conns, code \in Codes : NextQuestion(c, code)
    \/ \E c \in Conns, qid \in PlayedQuestions,
          answer \in AnswerInputs, rt \in LatencyInputs : SubmitAnswer(c, qid, answer, rt)
    \/ \E c \in Conns, old \in Sids : Reconnect(c, old)
    \/ \E c \in Conns : Disconnect(c)
    \/ \E c \in Conns : Timer(c)
    \/ TimePasses
    \/ \E sid \in HttpSids : HttpJoinGame(sid)
    \/ \E pid \in 1 .. MaxPlayers : HttpLeaveGame(pid, PlayLeaves)

Spec == Init /\ [][Next]_vars

\* The commands of the host and the timer, one step per stretch between two
\* awaits, so that the tasks of two connections interleave inside a handler.
NextRace ==
    \/ \E c \in Conns : Connect(c)
    \/ \E c \in Conns, nick \in Nicks : JoinLobby(c, GameCode, nick)
    \/ \E c \in Conns : StartGameBegin(c, GameCode)
    \/ \E c \in Conns : NextQuestionRead(c, GameCode)
    \/ \E c \in Conns : NextQuestionWrite(c)
    \/ \E c \in Conns, old \in Sids : Reconnect(c, old)
    \/ \E c \in Conns : TimerScan(c)
    \/ \E c \in Conns : ShowQuestionResult(c)
    \/ TimePasses
    \/ \E sid \in HttpSids : HttpJoinGame(sid)
    \/ \E pid \in 1 .. MaxPlayers : HttpLeaveGame(pid, RaceLeaves)

SpecRace == Init /\ [][NextRace]_vars

\* Players who answer, leave over HTTP and come back on another connection.
NextMove ==
    \/ \E c \in Conns : Connect(c)
    \/ \E c \in Conns, nick \in Nicks : JoinLobby(c, GameCode, nick)
    \/ \E c \in Conns : StartGame(c, GameCode)
    \/ \E c \in Conns, qid \in QuestionIds, answer \in AnswerInputs,
          rt \in LatencyInputs : SubmitAnswer(c, qid, answer, rt)
    \/ \E c \in Conns, old \in Sids : Reconnect(c, old)
    \/ \E sid \in HttpSids : HttpJoinGame(sid)
    \/ \E pid \in 1 .. MaxPlayers : HttpLeaveGame(pid, MoveLeaves)
    \/ \E sid \in Sids, qid \in QuestionIds, answer \in AnswerInputs,
          rt \in LatencyInputs : HttpSubmitAnswer(sid, qid, answer, rt)

SpecMove == Init /\ [][NextMove]_vars

\* Answers over the whole range of 32-bit latencies: the ends of the range,
\* both sides of the overflow of max_time_ms - response_time_ms, negative
\* latencies, and latencies below, at and above the budget.  On each of them
\* the f64 result of the code equals the exact quotient of ScaledPart.
ScoreLatencies ==
    {MinI32, 0 - 2147473648, 0 - 2147473647, 0 - 10000, 0 - 12, 0 - 11,
     0, 5000, 10000, 12000, MaxI32}

NextScore ==
    \/ \E c \in Conns : Connect(c)
    \/ \E c \in Conns, nick \in Nicks : JoinLobby(c, GameCode, nick)
    \/ \E c \in Conns : StartGame(c, GameCode)
    \/ \E c \in Conns, qid \in QuestionIds, answer \in AnswerInputs,
          rt \in ScoreLatencies : SubmitAnswer(c, qid, answer, rt)

SpecScore == Init /\ [][NextScore]_vars

\* Connection tasks from their start to their end.  The loop of
\* websocket_task leaves through its break on a Close frame, an inbound error,
\* the end of the stream or the heartbeat timeout, and every transport ends in
\* one of these: a task that stays in its loop eventually takes Disconnect.
NextLive ==
    \/ \E c \in Conns : Connect(c)
    \/ \E c \in Conns, nick \in Nicks : JoinLobby(c, GameCode, nick)
    \/ \E c \in Conns : StartGame(c, GameCode)
    \/ \E c \in Conns, old \in Sids : Reconnect(c, old)
    \/ \E c \in Conns : Disconnect(c)
    \/ \E c \in Conns : Timer(c)
    \/ TimePasses
    \/ \E sid \in HttpSids : HttpJoinGame(sid)
    \/ \E pid \in 1 .. MaxPlayers : HttpLeaveGame(pid, PlayLeaves)

SpecLive ==
    Init /\ [][NextLive]_vars /\ \A c \in Conns : WF_vars(Disconnect(c))

\* Broadcasts with recipients whose task has died: the overflow of the
\* scoring is the one way a task ends without removing its registry entry.
CastLatencies == {5000, MinI32}

NextCast ==
    \/ \E c \in Conns : Connect(c)
    \/ \E c \in Conns, nick \in Nicks : JoinLobby(c, GameCode, nick)
    \/ \E c \in Conns : StartGame(c, GameCode)
    \/ \E c \in Conns : NextQuestion(c, GameCode)
    \/ \E c \in Conns, answer \in AnswerInputs, rt \in CastLatencies :
          SubmitAnswer(c, QuestionIdAt(0), answer, rt)
    \/ \E c \in Conns, old \in Sids : Reconnect(c, old)
    \/ \E c \in Conns : Disconnect(c)
    \/ \E sid \in HttpSids : HttpJoinGame(sid)
    \/ \E pid \in 1 .. MaxPlayers : HttpLeaveGame(pid, PlayLeaves)

SpecCast == Init /\ [][NextCast]_vars

\* Joins that interleave with one another and with the start of the game.
NextJoin ==
    \/ \E c \in Conns : Connect(c)
    \/ \E c \in Conns, code \in Codes, nick \in Nicks : JoinLobbyCheck(c, code, nick)
    \/ \E c \in Conns : JoinLobbyInsert(c, JoinRows)
    \/ \E c \in Conns : JoinLobbyStore(c)
    \/ \E c \in Conns : StartGame(c, GameCode)
    \/ \E c \in Conns, old \in Sids : Reconnect(c, old)
    \/ \E sid \in HttpSids : HttpJoinGame(sid)
    \/ \E pid \in 1 .. MaxPlayers : HttpLeaveGame(pid, PlayLeaves)

SpecJoin == Init /\ [][NextJoin]_vars

(***************************************************************************)
(* Properties.                                                             *)
(***************************************************************************)
HasGame == GameCode \in DOMAIN games
Game == games[GameCode]
Players == IF HasGame THEN DOMAIN Game.players ELSE {}
SentTo(msgs, c, type) == {m \in msgs : m.to = c /\ m.type = type}
SubmitBy(step, c, qid) == step.op = "submit_answer" /\ step.c = c /\ step.arg = qid
HasRecord(c, qid) == c \in Players /\ qid \in DOMAIN Game.players[c].answers
HostCommandBy(step, c) == step.op \in {"start_game", "next_question"} /\ step.c = c
IsSortedDesc(rows) == \A i \in 1 .. (Len(rows) - 1) : rows[i].score >= rows[i + 1].score

\* C1: a second submit_answer for a (player, question) pair that already has
\* an Answer Record leaves the stored record and the cumulative score as
\* they were.
C1_AnswerRecordKept ==
    [][\A c \in Conns, qid \in QuestionIds :
         (SubmitBy(last', c, qid) /\ HasRecord(c, qid))
         => /\ games'[GameCode].players[c].answers[qid] = Game.players[c].answers[qid]
            /\ games'[GameCode].players[c].score = Game.players[c].score]_vars

\* C2: a player who already has an Answer Record for a question and submits
\* again for it is answered with an error and no answer_received, and the
\* score stays.
C2_ResubmitRejected ==
    [][\A c \in Conns, qid \in QuestionIds :
         (SubmitBy(last', c, qid) /\ HasRecord(c, qid))
         => /\ SentTo(sent', c, "error") # {}
            /\ SentTo(sent', c, "answer_received") = {}
            /\ games'[GameCode].players[c].score = Game.players[c].score]_vars

\* C3: no question_start handed to the session-wide broadcast holds the
\* correct option, and a question_start that holds it goes directly to the
\* connection that issued the command, which carries the host's user id.
C3_AnswerKeyOnlyToHost ==
    \A m \in sent :
        m.type = "question_start"
        => /\ m.via = "broadcast" => "correct_option" \notin DOMAIN m.body
           /\ "correct_option" \in DOMAIN m.body
              => /\ m.via = "direct"
                 /\ m.to = last.c
                 /\ last.op = "next_question"
                 /\ dbConns[last.c].user_id = HostUser

\* a question was broadcast to a participant other than the caller, and the
\* caller got its own copy with the correct option
C3_Witness ==
    /\ last.op = "next_question"
    /\ \E m \in sent : /\ m.type = "question_start" /\ m.via = "broadcast"
                       /\ m.to # last.c
    /\ \E m \in sent : /\ m.type = "question_start" /\ m.via = "direct"
                       /\ m.to = last.c /\ "correct_option" \in DOMAIN m.body

\* C4: once the phase of a session is ended, no step changes it.
C4_EndedIsFinal ==
    [][(HasGame /\ Game.state = "ended") => games'[GameCode].state = "ended"]_vars

\* C5: the current question index of a session never takes a value lower
\* than one it held before.
C5_IndexNeverDecreases ==
    [][HasGame => games'[GameCode].current_question >= Game.current_question]_vars

\* what C6 promises of a refused command: an error to the caller, nothing
\* broadcast, the session and its durable row untouched
RefusedUntouched(c) ==
    /\ sent' = ErrorTo(c)
    /\ games' = games
    /\ dbGame' = dbGame

\* C6 as stated: start_game or next_question from a connection other than
\* the host connection recorded for the session is refused and changes
\* nothing.
C6_NonHostConnectionRefused ==
    [][\A c \in Conns :
         (HostCommandBy(last', c) /\ HasGame /\ Game.host_session_id # c)
         => RefusedUntouched(c)]_vars

\* C6: start_game or next_question from a connection whose durable
\* connection row does not carry the user id of the game's host is answered
\* with an error, changes neither phase, index, timer nor durable status,
\* and broadcasts nothing.
C6_NonHostUserRefused ==
    [][\A c \in Conns :
         (HostCommandBy(last', c)
          /\ ~(dbConns[c].present /\ dbConns[c].user_id = HostUser))
         => RefusedUntouched(c)]_vars

\* a participant without the host's user id was refused while a question
\* was on display
C6_Witness ==
    /\ HostCommandBy(last, last.c)
    /\ last.res = "error"
    /\ last.c \in Players
    /\ dbConns[last.c].present
    /\ dbConns[last.c].user_id # HostUser
    /\ Game.state = "question"
    /\ sent = ErrorTo(last.c)

\* C7: the timer tick that finds a question's time elapsed moves the session
\* to review and broadcasts question_end to the registered participants.
C7_ExpiryBroadcastsQuestionEnd ==
    [][(last'.op = "show_question_result" /\ HasGame /\ Expired(Game) /\ GamesLockFree)
       => /\ games'[GameCode].state = "review"
          /\ \A s \in Recipients(games', connections', GameCode) :
                SentTo(sent', s, "question_end") # {}]_vars

\* C8: when the connection recorded as the host of a session ends during a
\* question, every other participant still registered gets game_end with
\* the host-left reason and the durable row is completed.
C8_HostLossEndsGame ==
    [][\A c \in Conns :
         (last'.op = "disconnect" /\ last'.c = c /\ HasGame
          /\ Game.host_session_id = c /\ Game.state = "question")
         => /\ dbGame'.status = "completed"
            /\ \A s \in (Players \ {c}) \cap DOMAIN connections' :
                  \E m \in SentTo(sent', s, "game_end") : m.body.reason = "host_left"]_vars

\* C9: with every question of the set started, the host's next
\* next_question ends the session, completes the durable row and
\* broadcasts game_end with a leaderboard in descending order of score.
C9_LastAdvanceEndsGame ==
    [][\A c \in Conns :
         (last'.op = "next_question" /\ last'.c = c /\ last'.res # "error"
          /\ HasGame /\ Game.current_question = NumQuestions - 1
          /\ dbGame.current_question = NumQuestions - 1)
         => /\ games'[GameCode].state = "ended"
            /\ dbGame'.status = "completed"
            /\ \A s \in Recipients(games', connections', GameCode) :
                  \E m \in SentTo(sent', s, "game_end") :
                      IsSortedDesc(m.body.final_leaderboard)]_vars

\* C10: the player entry handle_reconnect inserts under a new session id
\* has the score and the Answer Records the entry under the old session id
\* had.
C10_MigrationPreservesPlayer ==
    [][\A c \in Conns :
         (last'.op = "reconnect" /\ last'.res = "ok" /\ last'.c = c /\ HasGame
          /\ dbPlayers[last'.arg].session_id \in Players \ {c})
         => LET before == Game.players[dbPlayers[last'.arg].session_id]
                after == games'[GameCode].players[c]
            IN  /\ after.score = before.score
                /\ after.answers = before.answers]_vars

\* C11: a reconnect sent by a connection c that names the session id of a
\* terminated connection holding a player entry is accepted: the entry is
\* re-keyed under c with the active flag set, the old key is gone and
\* reconnect_success is sent to c.
C11_ReconnectAfterTermination ==
    [][\A c \in Conns :
         (/\ last'.op = "reconnect" /\ last'.c = c /\ last'.arg # NULL
          /\ HasGame
          /\ dbPlayers[last'.arg].session_id \in (Conns \cap Players) \ {c}
          /\ pc[dbPlayers[last'.arg].session_id] = "closed")
         => LET old == dbPlayers[last'.arg].session_id
                after == games'[GameCode].players
            IN  /\ last'.res = "ok"
                /\ c \in DOMAIN after
                /\ after[c].is_active
                /\ after[c].session_id = c
                /\ old \notin DOMAIN after
                /\ SentTo(sent', c, "reconnect_success") # {}]_vars

\* what C12 promises of a refused reconnect: an error to the caller, and the
\* Connection Registry, the Session Store and the players table untouched
ReconnectRefused(c) ==
    /\ last'.res = "error"
    /\ sent' = ErrorTo(c)
    /\ connections' = connections
    /\ games' = games
    /\ dbPlayers' = dbPlayers

\* C12: a reconnect naming a session id that no players row carries, or that
\* an active players row carries, is answered with an error and changes
\* neither the Connection Registry, the Session Store nor the players table.
C12_ReconnectRefusedUntouched ==
    [][\A c \in Conns :
         (/\ last'.op = "reconnect" /\ last'.c = c
          /\ \/ last'.arg = NULL
             \/ /\ dbPlayers[last'.arg].session_id # c
                /\ \E q \in PlayerIds(dbPlayers) :
                     /\ dbPlayers[q].session_id = dbPlayers[last'.arg].session_id
                     /\ dbPlayers[q].is_active)
         => ReconnectRefused(c)]_vars

\* the Answer Records held in the Session Store, and those of correct answers
AnswerRecords ==
    UNION {{Game.players[c].answers[q] : q \in DOMAIN Game.players[c].answers} :
             c \in Players}

CorrectAnswerRecords == {r \in AnswerRecords : r.is_correct}

\* C13: the points recorded for a correct answer lie within [100, 1000],
\* whatever 32-bit latency was submitted, and of two correct answers the one
\* with the smaller latency has at least the points of the other.
C13_PointsBoundedMonotone ==
    \A r1 \in CorrectAnswerRecords :
        /\ r1.points_earned >= 100
        /\ r1.points_earned <= 1000
        /\ \A r2 \in CorrectAnswerRecords :
             r1.response_time_ms <= r2.response_time_ms
             => r1.points_earned >= r2.points_earned

\* C14: the points of every Answer Record equal the reference scoring: 0 for
\* an incorrect answer, otherwise 100 + 900 * clamp((10000 - latency) / 10000,
\* 0, 1) truncated to an integer, so 1000 at 0 ms, 550 at 5000 ms and 100 at
\* 10000 ms and beyond.
C14_PointsEqualReference ==
    LET Reference(is_correct, latency) ==
            IF ~is_correct THEN 0
            ELSE IF latency <= 0 THEN 1000
            ELSE IF latency >= 10000 THEN 100
            ELSE 100 + (900 * (10000 - latency)) \div 10000
    IN  \A r \in AnswerRecords :
            r.points_earned = Reference(r.is_correct, r.response_time_ms)

\* C15: every connection task that has started eventually terminates, and
\* its session id is then no longer in the Connection Registry.
C15_TaskTerminates ==
    \A c \in Conns :
        (pc[c] # "new") ~> (pc[c] = "closed" /\ c \notin DOMAIN connections)

\* C16: when the connection of a player of the session terminates, the
\* player is inactive afterwards both in the Session Store entry and in the
\* players row of that session id.
C16_TerminationMarksInactive ==
    [][\A c \in Conns :
         (/\ last'.op = "disconnect" /\ last'.c = c /\ pc'[c] = "closed"
          /\ c \in Players
          /\ PlayersOfSession(dbPlayers, c) # {})
         => /\ ~games'[GameCode].players[c].is_active
            /\ \A p \in PlayersOfSession(dbPlayers, c) : ~dbPlayers'[p].is_active]_vars

\* the recipients of the broadcast messages of one type among msgs
BroadcastTo(msgs, type) == {m.to : m \in {b \in msgs : b.via = "broadcast" /\ b.type = type}}

C18_StartEntersFirstQuestion ==
    [][\A c \in Conns :
         (/\ StartGame(c, GameCode)
          /\ HasGame /\ Game.state = "lobby" /\ dbGame.status = "lobby"
          /\ dbConns[c].present /\ IsHostUser(c)
          /\ QuestionAt(Game.current_question + 1) # NULL)
         => LET next == Game.current_question + 1
                g == games'[GameCode]
            IN  /\ g.state = "question"
                /\ g.current_question = next
                /\ g.question_timer = 0
                /\ g.question_duration = TimeLimit(next)]_vars

\* C19: the session never passes in one step from the question phase of one
\* index to the question phase of another: a review lies in between.
C19_ReviewBetweenQuestions ==
    [][(HasGame /\ Game.state = "question" /\ games'[GameCode].state = "question")
       => games'[GameCode].current_question = Game.current_question]_vars

C21_JoinKeepsSession ==
    [][HasGame =>
         /\ GameCode \in DOMAIN games'
         /\ last'.op = "join_lobby" =>
              LET g == games'[GameCode]
              IN  /\ g.state = Game.state
                  /\ g.current_question = Game.current_question
                  /\ g.question_timer = Game.question_timer
                  /\ g.question_duration = Game.question_duration
                  /\ g.host_session_id = Game.host_session_id
                  /\ \A k \in Players \ {last'.c} :
                       k \in DOMAIN g.players /\ g.players[k] = Game.players[k]]_vars

\* a join whose reads preceded the start of the game has added its player to
\* the session now in question phase, next to the player already there
C21_Witness ==
    /\ HasGame
    /\ last.op = "join_lobby" /\ last.res = "ok"
    /\ Game.state = "question"
    /\ Game.current_question = 0
    /\ Cardinality(Players) = 2

\* the lock guards alive at the send of a message: broadcast_to_game takes
\* both locks before its loop and drops them when it returns; a handler's
\* own session.text is outside the blocks that lock
GuardsAlive(via) ==
    IF via = "broadcast" THEN {"active_connections", "games"} ELSE {}

\* C22: no message is sent while the sending task holds the lock of the
\* Connection Registry or of the Session Store.
C22_NoSendUnderLock == \A m \in sent : GuardsAlive(m.via) = {}

\* C23: a show_question_result of the timer changes the phase of the session
\* only if the session is then in question phase with its time elapsed.
C23_ReviewOnlyFromExpiredQuestion ==
    [][(/\ last'.op = "show_question_result"
        /\ HasGame
        /\ games'[GameCode].state # Game.state)
       => Expired(Game)]_vars

\* C24: a submit_answer that persisted no answer row leaves the Session
\* Store unchanged and sends no answer_received; a changed score or answer
\* map and an answer_received come with a new answer row only.
C24_NoRowNoUpdate ==
    [][\A c \in Conns :
         (/\ last'.op = "submit_answer" /\ last'.c = c
          /\ Len(dbAnswers') = Len(dbAnswers))
         => /\ games' = games
            /\ SentTo(sent', c, "answer_received") = {}]_vars

\* the INSERT of the answer of a player of the session in question phase has
\* failed
C24_Witness ==
    /\ HasGame
    /\ last.op = "submit_answer" /\ last.res = "failed"
    /\ last.c \in Players
    /\ Game.state = "question"
    /\ last.arg = QuestionAt(Game.current_question)

\* C25: no task waits for ever for the lock of the Session Store.
C25_NoTaskWaitsForever == \A c \in Conns : pc[c] # "blocked"

\* the sum of points_earned over the Answer Records of an answer map
RECURSIVE SumPointsEarned(_)
SumPointsEarned(answers) ==
    IF DOMAIN answers = {} THEN 0
    ELSE LET q == CHOOSE k \in DOMAIN answers : TRUE
         IN  answers[q].points_earned + SumPointsEarned(MapDel(answers, q))

\* C26: the cumulative score held in memory for a player equals the sum of
\* points_earned over the Answer Records of that player's answer map.
C26_ScoreIsSumOfAnswers ==
    HasGame => \A c \in Players :
                  Game.players[c].score = SumPointsEarned(Game.players[c].answers)

\* C27: a submit_answer changes the Session Store only when the session is
\* in the question phase and the submitted question id is the one of the
\* current question; any other submission leaves scores and answer maps as
\* they were.
C27_SubmitOnlyForCurrentQuestion ==
    [][\A c \in Conns :
         (/\ last'.op = "submit_answer" /\ last'.c = c
          /\ HasGame
          /\ ~(/\ Game.state = "question"
               /\ last'.arg = QuestionAt(Game.current_question)))
         => games' = games]_vars

\* C28: whenever the durable game row is completed and the session is in
\* the Session Store, the phase held in memory is ended.
C28_CompletedMeansEnded ==
    (HasGame /\ dbGame.status = "completed") => Game.state = "ended"

\* C29: no two players of the same game, joined from different connections,
\* hold the same display name.
C29_DisplayNamesUnique ==
    HasGame => \A c1 \in Players, c2 \in Players :
                  c1 # c2 => Game.players[c1].nickname # Game.players[c2].nickname

\* C30: a join_lobby for a game whose durable status is not lobby is
\* answered with an error, adds no player to the durable store or to the
\* Session Store and leaves the registry entry of the caller as it was.
C30_ClosedGameRefusesJoin ==
    [][\A c \in Conns, nick \in Nicks :
         (JoinLobby(c, GameCode, nick) /\ dbGame.status # "lobby")
         => /\ sent' = ErrorTo(c)
            /\ dbPlayers' = dbPlayers
            /\ games' = games
            /\ connections' = connections]_vars

\* a registered connection that is no player of the running session was
\* refused by join_lobby
C30_Witness ==
    /\ last.op = "join_lobby" /\ last.res = "error"
    /\ dbGame.status = "active"
    /\ HasGame
    /\ last.c \in DOMAIN connections
    /\ last.c \notin Players

====
